---- MODULE Spec2Model ----
(***************************************************************************)
(* State-machine model of the audio pipeline of ask-away:                  *)
(*   - AudioRecorder  (src/src/audio_recorder.py): start_recording,        *)
(*     stop_recording, the capture thread _record_audio, the chunk and     *)
(*     session writers;                                                    *)
(*   - Transcriber    (src/src/transcriber.py): load_model, transcribe,    *)
(*     the worker thread _transcribe_audio;                                *)
(*   - MeetingAssistantApp (src/src/app.py): the record toggle             *)
(*     _record_audio and the chunk callback _process_audio_chunk.          *)
(* The specifications share the variables: Spec runs the recorder,         *)
(* FairSpec the recorder of one session under weak fairness, DevSpec the   *)
(* device selection over every device list, TSpec the transcription jobs,  *)
(* SoloSpec one job over every combination of file sizes, JobFairSpec the  *)
(* jobs of one chunk file under weak fairness, LoadSpec and LoadFairSpec   *)
(* the model loader, EngineSpec the loader together with a job, PcmSpec    *)
(* the two file writers, LongSpec the recorder with sessions that only a   *)
(* stop ends, FaultSpec the recorder with library calls that raise,        *)
(* AppSpec the app (button, recorder, chunk jobs), SharedSpec the app      *)
(* whose recorder has a second client.                                     *)
(*                                                                         *)
(* Granularity.  A method is one step up to the point where it blocks      *)
(* (Thread.join) or where it goes on to touch shared state after it has    *)
(* spawned a thread; a thread body is cut at every read or write of state  *)
(* another thread can see.                                                 *)
(*                                                                         *)
(* Time.  time.time() is the integer clock `now`.  One clock unit is one   *)
(* second; the capture loop sleeps 0.01 s per iteration and the stream     *)
(* hands over a block every 0.1 s, so within a clock unit every running    *)
(* loop completes an iteration and every open stream delivers a block      *)
(* (the guard of Tick).                                                    *)
(***************************************************************************)
EXTENDS Integers, Sequences, FiniteSets, TLC

(* ------------------------------ bounds -------------------------------- *)
MaxSessions == 2
MaxTime == 4
MaxBlocks == 4
MaxJobs == 2
MaxDevices == 3
MaxLoads == 3
MaxFairSessions == 1
MaxEngineJobs == 1
MaxFairJobs == 2
MaxSoloJobs == 1
SampleDen == 8
MaxSamples == 2
MaxAppJobs == 1

(* ------------------------- program constants -------------------------- *)
chunk_duration == 2
MinAudioBytes == 1024
SampleRate == 16000
FullScale == 32767

None == "None"
(* None where a path is expected *)
NoPath == <<>>
NoFile == [size |-> -1, data |-> <<>>]

(* max_duration values a caller passes to start_recording *)
MaxDurations == {1, 4}
(* chunk callbacks a caller may register (None: no callback) *)
Callbacks == {None, "on_chunk"}

(* ------------------------------ paths --------------------------------- *)
(* A path is the sequence of its tokens; "x in path" is a window match.    *)
Digit(d) ==
    CASE d = 0 -> "0" [] d = 1 -> "1" [] d = 2 -> "2" [] d = 3 -> "3" [] d = 4 -> "4"
      [] d = 5 -> "5" [] d = 6 -> "6" [] d = 7 -> "7" [] d = 8 -> "8" [] OTHER -> "9"

(* f"{chunk_index:03d}" *)
Pad3(n) == <<Digit((n \div 100) % 10), Digit((n \div 10) % 10), Digit(n % 10)>>

(* tempfile.gettempdir() *)
temp_dir == <<"/", "tmp">>

(* a chunk file name of the form the transcriber's cleanup looks for *)
ChunkFileNameLegacy(chunk_index) ==
    <<"recording", "_", "chunk", "_">> \o Pad3(chunk_index) \o <<".wav">>

(* filename = f"chunk_{chunk_index:03d}.wav" *)
ChunkFileName(chunk_index) == <<"chunk", "_">> \o Pad3(chunk_index) \o <<".wav">>

(* os.path.join(self.temp_dir, filename) *)
PathJoin(dir, filename) == dir \o <<"/">> \o filename

ChunkFilePath(chunk_index) == PathJoin(temp_dir, ChunkFileName(chunk_index))

SessionFilePath == PathJoin(temp_dir, <<"recording", ".wav">>)

(* needle in hay, for token sequences *)
Contains(needle, hay) ==
    \E i \in 0..(Len(hay) - Len(needle)) :
        \A j \in 1..Len(needle) : hay[i + j] = needle[j]

(* "recording_chunk" in audio_file *)
IsCleanupName(audio_file) == Contains(<<"recording", "_", "chunk">>, audio_file)

(* A block stands for its samples, all of one value: block b holds the     *)
(* normalized float sample b / SampleDen.                                  *)
Samples == (0 - SampleDen)..SampleDen

(* ndarray.astype(np.int16) of the quotient num / den: the fraction is     *)
(* dropped, towards zero                                                   *)
AsInt16(num, den) == IF num >= 0 THEN num \div den ELSE 0 - ((0 - num) \div den)

(* lines 174, 199, 223: (audio * 32767).astype(np.int16) *)
Quantize(b) == AsInt16(b * FullScale, SampleDen)

(* the samples written for a list of blocks *)
Pcm(blocks) == [i \in 1..Len(blocks) |-> Quantize(blocks[i])]

(* bytes of a 16-bit PCM WAV holding the given blocks (header + samples);  *)
(* a block is blocksize = int(sample_rate * 0.1) frames of one channel     *)
WavFile(blocks) ==
    [size |-> 44 + Len(blocks) * (SampleRate \div 10) * 2, data |-> Pcm(blocks)]

MaxChunkIndex == MaxTime \div chunk_duration + 1

Paths ==
    {ChunkFilePath(i) : i \in 0..MaxChunkIndex} \cup {SessionFilePath}
        \cup {PathJoin(temp_dir, ChunkFileNameLegacy(0))}

(* ------------------------------ devices ------------------------------- *)
(* a device as sd.query_devices() lists it; a name is the sequence of its   *)
(* parts, "x in name" a window match                                       *)
Dev(inputs, name) == [max_input_channels |-> inputs, name |-> name]

(* the device lists sd.query_devices() answers with *)
DeviceLists ==
    { <<>>,
      <<Dev(0, <<"Speakers">>)>>,
      <<Dev(1, <<"USB Mic">>)>>,
      <<Dev(0, <<"Speakers">>), Dev(2, <<"USB Mic">>),
        Dev(1, <<"MacBook Pro Microphone">>)>> }

(* the devices a list may hold, and every list of up to MaxDevices of them *)
DeviceKinds ==
    { Dev(0, <<"Speakers">>), Dev(2, <<"USB Mic">>),
      Dev(1, <<"MacBook Pro Microphone">>), Dev(0, <<"MacBook Pro Microphone">>),
      Dev(1, <<"External ", "MacBook Pro Microphone", " (2)">>) }
AllDeviceLists == UNION {[1..n -> DeviceKinds] : n \in 0..MaxDevices}

(* input_device = None *)
NoDevice == -1

(* 'MacBook Pro Microphone' in device['name'] *)
IsPreferredName(name) == Contains(<<"MacBook Pro Microphone">>, name)

(* mutant: a fallback that takes the first device whatever its channels *)
TakesAnyDevice(device) == TRUE

(* line 119: device['max_input_channels'] > 0 *)
HasInput(device) == device.max_input_channels > 0

(* lines 111-115: the first loop, from position i on (enumerate is 0-based) *)
RECURSIVE ScanPreferred(_, _)
ScanPreferred(devices, i) ==
    IF i > Len(devices) THEN NoDevice
    ELSE IF devices[i].max_input_channels > 0 /\ IsPreferredName(devices[i].name)
         THEN i - 1
         ELSE ScanPreferred(devices, i + 1)

(* lines 118-122: the fallback loop *)
RECURSIVE ScanInput(_, _)
ScanInput(devices, i) ==
    IF i > Len(devices) THEN NoDevice
    ELSE IF HasInput(devices[i]) THEN i - 1
         ELSE ScanInput(devices, i + 1)

(* lines 108-122: the preferred microphone, else the first input device *)
SelectInputDevice(devices) ==
    LET input_device == ScanPreferred(devices, 1)
    IN  IF input_device = NoDevice THEN ScanInput(devices, 1) ELSE input_device

VARIABLES
    recording, frames, current_chunk, audio_filename, data_queue,
    recording_thread, chunk_callback, threads, mainPc, lastCall,
    now, nPut, files, chunkCalls,
    is_loaded, active_transcriptions, jobs, loadPc, lastTranscribe,
    model, load_callback, loadCalls, lastLoad, nLoads,
    app

recVars == <<recording, frames, current_chunk, audio_filename, data_queue,
             recording_thread, chunk_callback, threads, mainPc, lastCall,
             now, nPut, chunkCalls>>
loadVars == <<model, load_callback, loadCalls, lastLoad, nLoads>>
trVars == <<is_loaded, active_transcriptions, jobs, loadPc, lastTranscribe, loadVars>>
appVars == <<app>>
vars == <<recVars, trVars, files, appVars>>

ThreadIds == 1..MaxSessions

(* ---------------------- Transcriber: jobs and ids --------------------- *)
JobSlots == 1..MaxJobs

(* chunk_id = None *)
NoId == <<>>

(* chunk_id values a caller passes *)
ChunkIds == {NoId, <<"chunk_a">>}

(* str(uuid.uuid4()) drawn by the j-th accepted call: fresh every time *)
UUID(j) == <<"uuid", Digit(j)>>

(* f"chunk_{int(time.time() * 1000)}_{os.getpid()}" of the app's j-th     *)
(* accepted call: the calls of a process are milliseconds apart            *)
AppChunkId(j) == <<"chunk", Digit(j)>>

JobIdSet ==
    (ChunkIds \ {NoId}) \cup {UUID(j) : j \in JobSlots} \cup {AppChunkId(j) : j \in JobSlots}

NoEntry == [thread |-> 0, audio_file |-> NoPath, is_chunk |-> FALSE]

NoJob ==
    [pc |-> "none", audio_file |-> NoPath, is_chunk |-> FALSE, id |-> NoId,
     registered |-> FALSE, file_size |-> -1, text |-> None, calls |-> <<>>, end |-> None]

NoThread ==
    [pc |-> "none", max_duration |-> 0, start_time |-> 0, chunk_start_time |-> 0,
     chunk_count |-> 0, polled |-> FALSE,
     delivered |-> FALSE, ncb |-> 0, appended |-> <<>>, put |-> <<>>, end |-> None,
     devices |-> <<>>, input_device |-> NoDevice]

(* the state after AudioRecorder.__init__ *)
InitRecorder ==
    /\ recording = FALSE
    /\ frames = <<>>
    /\ current_chunk = <<>>
    /\ audio_filename = NoPath
    /\ data_queue = <<>>
    /\ recording_thread = 0
    /\ chunk_callback = None
    /\ threads = [t \in ThreadIds |-> NoThread]
    /\ mainPc = "idle"
    /\ lastCall = [op |-> None, arg |-> None, ret |-> None, was_recording |-> FALSE,
                   queued |-> <<>>]
    /\ now = 0
    /\ nPut = 0
    /\ chunkCalls = <<>>

(* the state after Transcriber.__init__: no job *)
InitJobs ==
    /\ active_transcriptions = [id \in JobIdSet |-> NoEntry]
    /\ jobs = [j \in JobSlots |-> NoJob]
    /\ lastTranscribe = [ret |-> NoId, spawned |-> FALSE]

(* the state after Transcriber.__init__: no model, no load thread *)
InitLoader ==
    /\ is_loaded = FALSE
    /\ model = None
    /\ loadPc = "none"
    /\ load_callback = None
    /\ loadCalls = <<>>
    /\ lastLoad = [arg |-> None, spawned |-> FALSE]
    /\ nLoads = 0

(* the state a first load_model(), without callback, leaves once its load  *)
(* thread has succeeded and ended                                          *)
AfterLoad ==
    /\ is_loaded = TRUE
    /\ model = "whisper"
    /\ loadPc = "done"
    /\ load_callback = None
    /\ loadCalls = <<>>
    /\ lastLoad = [arg |-> None, spawned |-> TRUE]
    /\ nLoads = 1

(* app.py lines 51-53: the flags of MeetingAssistantApp.__init__; pc is    *)
(* the position of the record-toggle handler, handled[t] the number of     *)
(* chunk callbacks capture thread t has entered, callers[j] the capture    *)
(* thread whose chunk callback asked for job j                             *)
InitApp ==
    app = [is_recording |-> FALSE, model_loaded |-> FALSE, pc |-> "idle",
           handled |-> [t \in ThreadIds |-> 0], callers |-> [j \in JobSlots |-> 0]]

(* the state after the constructors of the recorder, the transcriber and   *)
(* the app                                                                 *)
InitObjects == InitRecorder /\ InitJobs /\ InitLoader /\ InitApp

(* the recorder starts with an empty temporary directory *)
Init == InitObjects /\ files = [p \in Paths |-> NoFile]

(* the record of the caller's last completed call: its name, the callback  *)
(* it passed (of an accepted start_recording), its return value, whether   *)
(* the recorder was Recording when it was entered, and (for                *)
(* stop_recording) the blocks it found queued                              *)
Call(op, arg, ret, was, queued) ==
    [op |-> op, arg |-> arg, ret |-> ret, was_recording |-> was, queued |-> queued]

(* a thread that has returned: its locals are gone; what is kept is the     *)
(* session's history (max_duration asked for, callbacks made, blocks      *)
(* appended, blocks its stream delivered, how it ended)                    *)
Dead(th, how) ==
    [NoThread EXCEPT !.pc = "dead", !.max_duration = th.max_duration, !.ncb = th.ncb,
                     !.appended = th.appended, !.put = th.put, !.end = how]

(* the history kept of a thread is that of the current session only *)
Forgotten(th) == IF th.pc = "dead" THEN [NoThread EXCEPT !.pc = "dead"] ELSE th

(* threads spawned so far *)
nThreads == Cardinality({t \in ThreadIds : threads[t].pc # "none"})

IsAlive(t) == t # 0 /\ threads[t].pc \notin {"none", "dead"}

(* the input stream of thread t is open: inside the `with` block *)
StreamOpen(t) == threads[t].pc \in {"loop", "body", "flush", "clear", "close"}

(* ------------------------- AudioRecorder ------------------------------ *)

(* mutant: start_recording without its guard *)
StartRejectsNever == FALSE

(* lines 54-55: the guard of start_recording *)
StartRejects == recording

(* mutant: start_recording that keeps the frames of the last session *)
StartKeepsFrames == frames

(* line 57: the reset of the session buffer *)
StartResetFrames == <<>>

(* lines 43-70 *)
StartRecording(max_duration, cb) ==
    /\ mainPc = "idle"
    /\ IF StartRejects
       THEN /\ lastCall' = Call("start_recording", None, FALSE, recording, <<>>)
            /\ UNCHANGED <<recording, frames, current_chunk, audio_filename, data_queue,
                           recording_thread, chunk_callback, threads, mainPc,
                           now, nPut, chunkCalls, files>>
       ELSE /\ nThreads < MaxSessions
            /\ frames' = StartResetFrames
            /\ current_chunk' = <<>>
            /\ recording' = TRUE
            /\ chunk_callback' = cb
            /\ recording_thread' = nThreads + 1
            /\ threads' = [t \in ThreadIds |->
                              IF t = nThreads + 1
                              THEN [NoThread EXCEPT !.pc = "query",
                                                    !.max_duration = max_duration]
                              ELSE Forgotten(threads[t])]
            /\ chunkCalls' = <<>>
            /\ lastCall' = Call("start_recording", cb, TRUE, recording, <<>>)
            /\ UNCHANGED <<audio_filename, data_queue, mainPc, now, nPut, files>>
    /\ UNCHANGED trVars

(* start_recording called by a client that keeps no state of its own *)
start_recording(max_duration, cb) == StartRecording(max_duration, cb) /\ UNCHANGED appVars

(* mutant: stop_recording without its guard *)
StopRejectsNever == FALSE

(* lines 78-79: the guard of stop_recording *)
StopRejects == ~recording

(* lines 78-85: up to the join *)
StopRecording ==
    /\ mainPc = "idle"
    /\ IF StopRejects
       THEN /\ lastCall' = Call("stop_recording", None, NoPath, recording, <<>>)
            /\ UNCHANGED <<recording, mainPc>>
       ELSE /\ recording' = FALSE
            /\ mainPc' = "join"
            /\ UNCHANGED lastCall
    /\ UNCHANGED <<frames, current_chunk, audio_filename, data_queue, recording_thread,
                   chunk_callback, threads, now, nPut, chunkCalls, files>>
    /\ UNCHANGED trVars

stop_recording == StopRecording /\ UNCHANGED appVars

(* mutant: a stop that saves without draining the queue *)
DrainNothing(fr, q) == fr

(* lines 88-89: what the drain leaves in self.frames *)
Drain(fr, q) == fr \o q

(* lines 212-235: _save_audio: <<path returned, files after>> *)
save_audio(fr) ==
    IF fr = <<>>
    THEN <<NoPath, files>>
    ELSE <<SessionFilePath, [files EXCEPT ![SessionFilePath] = WavFile(fr)]>>

(* mutant: a stop that does not wait for the capture thread *)
JoinSkipped == TRUE

(* mutant: a join that gives up while the loop is inside an iteration *)
JoinedOrInLoopBody == ~IsAlive(recording_thread) \/ threads[recording_thread].pc = "body"

(* lines 84-85: the join returns once the capture thread is not alive *)
Joined == ~IsAlive(recording_thread)

(* lines 84-91: the join has returned; drain, save, return *)
StopRecordingFinish ==
    /\ mainPc = "join"
    /\ Joined
    /\ LET fr == Drain(frames, data_queue)
           saved == save_audio(fr)
       IN  /\ frames' = fr
           /\ data_queue' = <<>>
           /\ files' = saved[2]
           /\ audio_filename' = IF saved[1] = NoPath THEN audio_filename ELSE saved[1]
           /\ lastCall' = Call("stop_recording", None, saved[1], TRUE, data_queue)
    /\ mainPc' = "idle"
    /\ UNCHANGED <<recording, current_chunk, recording_thread, chunk_callback, threads, now, nPut, chunkCalls>>
    /\ UNCHANGED trVars

stop_recording_finish == StopRecordingFinish /\ UNCHANGED appVars

(* ------------------ the capture thread: _record_audio ----------------- *)

(* line 109: devices = sd.query_devices(), which answers with one of lists *)
QueryDevices(t, lists) ==
    /\ threads[t].pc = "query"
    /\ \E devices \in lists :
          threads' = [threads EXCEPT ![t].pc = "select", ![t].devices = devices]
    /\ UNCHANGED <<recording, frames, current_chunk, audio_filename, data_queue,
                   recording_thread, chunk_callback, mainPc, lastCall, now, nPut,
                   chunkCalls, files>>
    /\ UNCHANGED <<trVars, appVars>>

(* lines 108-127: pick a device of the list; without one, give up.  The    *)
(* list is not read again after the choice.                                *)
SelectDevice(t) ==
    /\ threads[t].pc = "select"
    /\ LET input_device == SelectInputDevice(threads[t].devices)
       IN  IF input_device = NoDevice
           THEN /\ recording' = FALSE
                /\ threads' = [threads EXCEPT ![t] = Dead(@, "no_device")]
           ELSE /\ threads' = [threads EXCEPT ![t].pc = "open", ![t].devices = <<>>,
                                              ![t].input_device = input_device]
                /\ UNCHANGED recording
    /\ UNCHANGED <<frames, current_chunk, audio_filename, data_queue, recording_thread,
                   chunk_callback, mainPc, lastCall, now, nPut, chunkCalls, files>>
    /\ UNCHANGED <<trVars, appVars>>

(* lines 128-137: sd.InputStream(device=input_device, ...) opens, or       *)
(* raises; input_device is not read again after this                       *)
OpenStream(t) ==
    /\ threads[t].pc = "open"
    /\ \E opened \in BOOLEAN :
          threads' = IF opened
                     THEN [threads EXCEPT ![t].pc = "loop", ![t].start_time = now,
                                          ![t].chunk_start_time = now, ![t].chunk_count = 0,
                                          ![t].input_device = NoDevice]
                     ELSE [threads EXCEPT ![t].pc = "except", ![t].input_device = NoDevice]
    /\ UNCHANGED <<recording, frames, current_chunk, audio_filename, data_queue,
                   recording_thread, chunk_callback, mainPc, lastCall, now, nPut,
                   chunkCalls, files>>
    /\ UNCHANGED <<trVars, appVars>>

(* lines 101-105: the stream's callback puts a block on the queue *)
Deliver(t) ==
    /\ StreamOpen(t)
    /\ ~threads[t].delivered
    /\ nPut < MaxBlocks
    /\ nPut' = nPut + 1
    /\ data_queue' = Append(data_queue, nPut + 1)
    /\ threads' = [threads EXCEPT ![t].delivered = TRUE]
    /\ UNCHANGED <<recording, frames, current_chunk, audio_filename, recording_thread,
                   chunk_callback, mainPc, lastCall, now, chunkCalls, files>>
    /\ UNCHANGED <<trVars, appVars>>

(* the same step, noted in the history of the stream that made it *)
DeliverLogged(t) ==
    /\ StreamOpen(t)
    /\ ~threads[t].delivered
    /\ nPut < MaxBlocks
    /\ nPut' = nPut + 1
    /\ data_queue' = Append(data_queue, nPut + 1)
    /\ threads' = [threads EXCEPT ![t].delivered = TRUE, ![t].put = Append(@, nPut + 1)]
    /\ UNCHANGED <<recording, frames, current_chunk, audio_filename, recording_thread,
                   chunk_callback, mainPc, lastCall, now, chunkCalls, files>>
    /\ UNCHANGED <<trVars, appVars>>

(* mutant: a loop that runs to max_duration whatever the flag says *)
LoopContinuesIgnoringFlag(t) == (now - threads[t].start_time) < threads[t].max_duration

(* mutant: a loop that only the flag ends *)
LoopContinuesWhileFlag(t) == recording

(* line 138: the loop condition *)
LoopContinues(t) == recording /\ (now - threads[t].start_time) < threads[t].max_duration

LoopTest(t) ==
    /\ threads[t].pc = "loop"
    /\ threads' = [threads EXCEPT ![t].pc = IF LoopContinues(t) THEN "body" ELSE "flush"]
    /\ UNCHANGED <<recording, frames, current_chunk, audio_filename, data_queue,
                   recording_thread, chunk_callback, mainPc, lastCall, now, nPut,
                   chunkCalls, files>>
    /\ UNCHANGED <<trVars, appVars>>

(* line 144: the chunk boundary *)
ChunkDue(t, current_time, chunk) ==
    current_time - threads[t].chunk_start_time >= chunk_duration /\ chunk # <<>>

(* mutant: a loop that numbers every chunk alike *)
SameChunkCount(chunk_count) == chunk_count

(* line 147: chunk_count += 1 *)
NextChunkCount(chunk_count) == chunk_count + 1

(* mutant: a loop that goes on filling the chunk it has written *)
ChunkKept(chunk) == chunk

(* line 150: self.current_chunk = [] *)
ChunkEmptied(chunk) == <<>>

(* lines 139-152: one iteration of the capture loop *)
LoopBody(t) ==
    /\ threads[t].pc = "body"
    /\ LET got == data_queue # <<>>
           fr == IF got THEN Append(frames, Head(data_queue)) ELSE frames
           chunk == IF got THEN Append(current_chunk, Head(data_queue)) ELSE current_chunk
           appended == IF got THEN Append(threads[t].appended, Head(data_queue))
                       ELSE threads[t].appended
           current_time == now
           due == ChunkDue(t, current_time, chunk)
           chunk_filename == ChunkFilePath(threads[t].chunk_count)
           called == due /\ chunk_callback # None
       IN  /\ data_queue' = IF got THEN Tail(data_queue) ELSE data_queue
           /\ frames' = fr
           /\ current_chunk' = IF due THEN ChunkEmptied(chunk) ELSE chunk
           /\ files' = IF due THEN [files EXCEPT ![chunk_filename] = WavFile(chunk)] ELSE files
           /\ chunkCalls' = IF called
                            THEN Append(chunkCalls, [thread |-> t, path |-> chunk_filename])
                            ELSE chunkCalls
           /\ threads' = [threads EXCEPT
                 ![t].pc = "loop",
                 ![t].polled = TRUE,
                 ![t].appended = appended,
                 ![t].chunk_count = IF due THEN NextChunkCount(@) ELSE @,
                 ![t].ncb = IF called THEN @ + 1 ELSE @,
                 ![t].chunk_start_time = IF due THEN current_time ELSE @]
    /\ UNCHANGED <<recording, audio_filename, recording_thread, chunk_callback, mainPc, lastCall, now, nPut>>
    /\ UNCHANGED <<trVars, appVars>>

(* mutant: a loop exit that drops what the accumulator holds *)
FlushDueNever == FALSE

(* line 153: the condition of the final flush *)
FlushDue == current_chunk # <<>> /\ recording

(* lines 153-157: the final flush *)
FinalFlush(t) ==
    /\ threads[t].pc = "flush"
    /\ LET due == FlushDue
           chunk_filename == ChunkFilePath(threads[t].chunk_count)
           called == due /\ chunk_callback # None
       IN  /\ files' = IF due THEN [files EXCEPT ![chunk_filename] = WavFile(current_chunk)]
                       ELSE files
           /\ chunkCalls' = IF called
                            THEN Append(chunkCalls, [thread |-> t, path |-> chunk_filename])
                            ELSE chunkCalls
           /\ threads' = [threads EXCEPT ![t].pc = "clear",
                                         ![t].ncb = IF called THEN @ + 1 ELSE @,
                                         ![t].end = IF recording THEN "max_duration"
                                                    ELSE "stopped"]
    /\ UNCHANGED <<recording, frames, current_chunk, audio_filename, data_queue,
                   recording_thread, chunk_callback, mainPc, lastCall, now, nPut>>
    /\ UNCHANGED <<trVars, appVars>>

(* line 158: self.recording = False, still inside the `with` block *)
ClearFlag(t) ==
    /\ threads[t].pc = "clear"
    /\ recording' = FALSE
    /\ threads' = [threads EXCEPT ![t].pc = "close"]
    /\ UNCHANGED <<frames, current_chunk, audio_filename, data_queue, recording_thread,
                   chunk_callback, mainPc, lastCall, now, nPut, chunkCalls, files>>
    /\ UNCHANGED <<trVars, appVars>>

(* line 159 and the end of the `with` block: the stream is closed *)
CloseStream(t) ==
    /\ threads[t].pc = "close"
    /\ threads' = [threads EXCEPT ![t] = Dead(@, @.end)]
    /\ UNCHANGED <<recording, frames, current_chunk, audio_filename, data_queue,
                   recording_thread, chunk_callback, mainPc, lastCall, now, nPut,
                   chunkCalls, files>>
    /\ UNCHANGED <<trVars, appVars>>

(* lines 160-164: the handler of an exception of the stream *)
Except(t) ==
    /\ threads[t].pc = "except"
    /\ recording' = FALSE
    /\ threads' = [threads EXCEPT ![t] = Dead(@, "error")]
    /\ UNCHANGED <<frames, current_chunk, audio_filename, data_queue, recording_thread,
                   chunk_callback, mainPc, lastCall, now, nPut, chunkCalls, files>>
    /\ UNCHANGED <<trVars, appVars>>

(* a second of wall-clock time passes.  The clock is read only inside the  *)
(* capture loop and only as a difference, so time that passes while no     *)
(* loop runs is left out.                                                  *)
Tick ==
    /\ now < MaxTime
    /\ \E t \in ThreadIds : threads[t].pc = "loop"
    /\ \A t \in ThreadIds :
          /\ threads[t].pc # "body"
          /\ threads[t].pc = "loop" => (threads[t].polled /\ threads[t].delivered)
    /\ now' = now + 1
    /\ threads' = [t \in ThreadIds |->
                      [threads[t] EXCEPT !.polled = FALSE, !.delivered = FALSE]]
    /\ UNCHANGED <<recording, frames, current_chunk, audio_filename, data_queue,
                   recording_thread, chunk_callback, mainPc, lastCall, nPut,
                   chunkCalls, files>>
    /\ UNCHANGED <<trVars, appVars>>

CaptureThread(t) ==
    \/ QueryDevices(t, DeviceLists)
    \/ SelectDevice(t)
    \/ OpenStream(t)
    \/ Deliver(t)
    \/ LoopTest(t)
    \/ LoopBody(t)
    \/ FinalFlush(t)
    \/ ClearFlag(t)
    \/ CloseStream(t)
    \/ Except(t)

Next ==
    \/ \E max_duration \in MaxDurations, cb \in Callbacks : start_recording(max_duration, cb)
    \/ stop_recording
    \/ stop_recording_finish
    \/ \E t \in ThreadIds : CaptureThread(t)
    \/ Tick

Spec == Init /\ [][Next]_vars

(* the steps the capture thread t takes by itself (the stream's callback,  *)
(* Deliver, runs in the audio library's thread)                            *)
CaptureProgress(t) ==
    \/ QueryDevices(t, DeviceLists)
    \/ SelectDevice(t)
    \/ OpenStream(t)
    \/ LoopTest(t)
    \/ LoopBody(t)
    \/ FinalFlush(t)
    \/ ClearFlag(t)
    \/ CloseStream(t)
    \/ Except(t)

(* the recorder over its first MaxFairSessions sessions *)
FairNext ==
    \/ \E max_duration \in MaxDurations, cb \in Callbacks :
          nThreads < MaxFairSessions /\ start_recording(max_duration, cb)
    \/ stop_recording
    \/ stop_recording_finish
    \/ \E t \in ThreadIds : CaptureThread(t)
    \/ Tick

(* fair scheduling: a capture thread that can take a step takes it, and a  *)
(* caller whose join can return goes on                                    *)
FairSpec ==
    /\ Init /\ [][FairNext]_vars
    /\ \A t \in ThreadIds : WF_vars(CaptureProgress(t))
    /\ WF_vars(stop_recording_finish)

(* the recorder with the history of the blocks of every stream *)
OriginNext ==
    \/ \E max_duration \in MaxDurations, cb \in Callbacks : start_recording(max_duration, cb)
    \/ stop_recording
    \/ stop_recording_finish
    \/ \E t \in ThreadIds : CaptureProgress(t)
    \/ \E t \in ThreadIds : DeliverLogged(t)
    \/ Tick

OriginSpec == Init /\ [][OriginNext]_vars

(* ------------- the capture thread when a library call raises ---------- *)

(* sd.query_devices() raises: at line 100, before the try, the exception   *)
(* ends the thread; at line 109 the except clause takes it                 *)
QueryRaises(t) ==
    /\ threads[t].pc = "query"
    /\ \E inside_try \in BOOLEAN :
          threads' = [threads EXCEPT ![t] = IF inside_try THEN [@ EXCEPT !.pc = "except"]
                                            ELSE Dead(@, "crashed")]
    /\ UNCHANGED <<recording, frames, current_chunk, audio_filename, data_queue,
                   recording_thread, chunk_callback, mainPc, lastCall, now, nPut,
                   chunkCalls, files>>
    /\ UNCHANGED <<trVars, appVars>>

(* lines 139-149 when the chunk that is due cannot be written (wave.open   *)
(* raises), or its chunk callback raises                                   *)
LoopBodyRaises(t) ==
    /\ threads[t].pc = "body"
    /\ LET got == data_queue # <<>>
           fr == IF got THEN Append(frames, Head(data_queue)) ELSE frames
           chunk == IF got THEN Append(current_chunk, Head(data_queue)) ELSE current_chunk
           appended == IF got THEN Append(threads[t].appended, Head(data_queue))
                       ELSE threads[t].appended
           chunk_filename == ChunkFilePath(threads[t].chunk_count)
       IN  /\ ChunkDue(t, now, chunk)
           /\ data_queue' = IF got THEN Tail(data_queue) ELSE data_queue
           /\ frames' = fr
           /\ current_chunk' = chunk
           /\ \E in_callback \in BOOLEAN :
                 /\ in_callback => chunk_callback # None
                 /\ files' = IF in_callback
                             THEN [files EXCEPT ![chunk_filename] = WavFile(chunk)]
                             ELSE files
                 /\ chunkCalls' = IF in_callback
                                  THEN Append(chunkCalls,
                                              [thread |-> t, path |-> chunk_filename])
                                  ELSE chunkCalls
                 /\ threads' = [threads EXCEPT
                       ![t].pc = "except",
                       ![t].polled = TRUE,
                       ![t].appended = appended,
                       ![t].chunk_count = IF in_callback THEN NextChunkCount(@) ELSE @,
                       ![t].ncb = IF in_callback THEN @ + 1 ELSE @]
    /\ UNCHANGED <<recording, audio_filename, recording_thread, chunk_callback, mainPc,
                   lastCall, now, nPut>>
    /\ UNCHANGED <<trVars, appVars>>

(* lines 153-157 when the final chunk cannot be written, or its chunk      *)
(* callback raises                                                         *)
FinalFlushRaises(t) ==
    /\ threads[t].pc = "flush"
    /\ FlushDue
    /\ LET chunk_filename == ChunkFilePath(threads[t].chunk_count)
       IN  \E in_callback \in BOOLEAN :
              /\ in_callback => chunk_callback # None
              /\ files' = IF in_callback
                          THEN [files EXCEPT ![chunk_filename] = WavFile(current_chunk)]
                          ELSE files
              /\ chunkCalls' = IF in_callback
                               THEN Append(chunkCalls,
                                           [thread |-> t, path |-> chunk_filename])
                               ELSE chunkCalls
              /\ threads' = [threads EXCEPT ![t].pc = "except",
                                            ![t].ncb = IF in_callback THEN @ + 1 ELSE @]
    /\ UNCHANGED <<recording, frames, current_chunk, audio_filename, data_queue,
                   recording_thread, chunk_callback, mainPc, lastCall, now, nPut>>
    /\ UNCHANGED <<trVars, appVars>>

(* the end of the `with` block when closing the stream raises *)
CloseStreamRaises(t) ==
    /\ threads[t].pc = "close"
    /\ threads' = [threads EXCEPT ![t].pc = "except"]
    /\ UNCHANGED <<recording, frames, current_chunk, audio_filename, data_queue,
                   recording_thread, chunk_callback, mainPc, lastCall, now, nPut,
                   chunkCalls, files>>
    /\ UNCHANGED <<trVars, appVars>>

(* the recorder on a machine where the audio library, the chunk writer and *)
(* the chunk callback may raise                                            *)
FaultNext ==
    \/ Next
    \/ \E t \in ThreadIds : QueryRaises(t)
    \/ \E t \in ThreadIds : LoopBodyRaises(t)
    \/ \E t \in ThreadIds : FinalFlushRaises(t)
    \/ \E t \in ThreadIds : CloseStreamRaises(t)

FaultSpec == Init /\ [][FaultNext]_vars

(* max_duration values that include one no session of the model reaches *)
LongDurations == MaxDurations \cup {MaxTime + 1}

(* the recorder with sessions that only a stop ends *)
LongNext ==
    \/ \E max_duration \in LongDurations, cb \in Callbacks :
          start_recording(max_duration, cb)
    \/ stop_recording
    \/ stop_recording_finish
    \/ \E t \in ThreadIds : CaptureThread(t)
    \/ Tick

LongSpec == Init /\ [][LongNext]_vars

(* the beginning of sessions on machines with any list of devices *)
DevNext ==
    \/ \E max_duration \in MaxDurations, cb \in Callbacks : start_recording(max_duration, cb)
    \/ \E t \in ThreadIds : QueryDevices(t, AllDeviceLists)
    \/ \E t \in ThreadIds : SelectDevice(t)

DevSpec == Init /\ [][DevNext]_vars

(* --------------------------- Transcriber ------------------------------ *)

(* the files a transcription is asked for: a chunk file of the recorder    *)
(* and a file of the name the cleanup looks for                            *)
TPaths == {ChunkFilePath(0), PathJoin(temp_dir, ChunkFileNameLegacy(0))}

(* file sizes in bytes: empty, undersized, just large enough *)
FileSizes == {0, MinAudioBytes - 1, MinAudioBytes}

(* the transcriber on its own: the model not loaded or loaded, and the    *)
(* files found on disk                                                     *)
TInit ==
    /\ InitRecorder /\ InitJobs /\ InitApp
    /\ InitLoader \/ AfterLoad
    /\ \E present \in SUBSET TPaths : \E size \in [present -> FileSizes] :
          files = [p \in Paths |->
                      IF p \in present THEN [size |-> size[p], data |-> <<>>] ELSE NoFile]

Exists(path) == files[path] # NoFile

(* a callback invocation callback(text, success, job_id) *)
CallbackArgs(text, success, job) ==
    [text |-> text, success |-> success,
     job_id |-> IF job.is_chunk THEN job.id ELSE NoId]

(* callbacks a caller passes to load_model (None: no callback) *)
LoadCallbacks == {None, "on_loaded"}

(* self._load_thread.is_alive() *)
LoadThreadAlive == loadPc \notin {"none", "done"}

(* mutant: a guard that forgets the load in progress *)
LoadRejectsWhenLoaded == is_loaded

(* mutant: a guard that takes any earlier load thread for a running one *)
LoadRejectsAfterAnyAttempt == is_loaded \/ loadPc # "none"

(* mutant: a guard that forgets the model is loaded *)
LoadRejectsWhileLoading == LoadThreadAlive

(* line 57: the guard of load_model *)
LoadRejects == is_loaded \/ LoadThreadAlive

(* lines 51-59 and 98-100: load_model spawns the load unless loaded or     *)
(* loading; the load thread keeps the callback it was given                *)
load_model(callback) ==
    /\ IF LoadRejects
       THEN /\ lastLoad' = [arg |-> callback, spawned |-> FALSE]
            /\ UNCHANGED <<loadPc, load_callback, loadCalls, nLoads>>
       ELSE /\ nLoads < MaxLoads
            /\ loadPc' = "load"
            /\ load_callback' = callback
            /\ loadCalls' = <<>>
            /\ nLoads' = nLoads + 1
            /\ lastLoad' = [arg |-> callback, spawned |-> TRUE]
    /\ UNCHANGED <<is_loaded, model, active_transcriptions, jobs, lastTranscribe>>
    /\ UNCHANGED <<recVars, files, appVars>>

(* lines 63-81: whisper.load_model returns the model, or raises *)
LoadWeights ==
    /\ loadPc = "load"
    /\ \E ok \in BOOLEAN :
          IF ok
          THEN model' = "whisper" /\ loadPc' = "set_loaded"
          ELSE loadPc' = "except" /\ UNCHANGED model
    /\ UNCHANGED <<is_loaded, load_callback, loadCalls, lastLoad, nLoads>>
    /\ UNCHANGED <<active_transcriptions, jobs, lastTranscribe>>
    /\ UNCHANGED <<recVars, files, appVars>>

(* line 83: self.is_loaded = True *)
SetLoaded ==
    /\ loadPc = "set_loaded"
    /\ is_loaded' = TRUE
    /\ loadPc' = "callback"
    /\ UNCHANGED <<model, load_callback, loadCalls, lastLoad, nLoads>>
    /\ UNCHANGED <<active_transcriptions, jobs, lastTranscribe>>
    /\ UNCHANGED <<recVars, files, appVars>>

(* lines 87-88, inside the try: callback(True) returns, or raises into the *)
(* except clause                                                           *)
LoadCallback ==
    /\ loadPc = "callback"
    /\ IF load_callback = None
       THEN loadPc' = "done" /\ UNCHANGED loadCalls
       ELSE /\ loadCalls' = Append(loadCalls, TRUE)
            /\ \E raises \in BOOLEAN : loadPc' = IF raises THEN "except" ELSE "done"
    /\ UNCHANGED <<is_loaded, model, load_callback, lastLoad, nLoads>>
    /\ UNCHANGED <<active_transcriptions, jobs, lastTranscribe>>
    /\ UNCHANGED <<recVars, files, appVars>>

(* lines 89-96: the except clause: callback(False); the thread ends        *)
(* whether that call returns or raises                                     *)
LoadExcept ==
    /\ loadPc = "except"
    /\ loadCalls' = IF load_callback = None THEN loadCalls ELSE Append(loadCalls, FALSE)
    /\ loadPc' = "done"
    /\ UNCHANGED <<is_loaded, model, load_callback, lastLoad, nLoads>>
    /\ UNCHANGED <<active_transcriptions, jobs, lastTranscribe>>
    /\ UNCHANGED <<recVars, files, appVars>>

(* the load thread: _load *)
LoadThread == LoadWeights \/ SetLoaded \/ LoadCallback \/ LoadExcept

(* the loader on its own *)
LoadNext ==
    \/ \E callback \in LoadCallbacks : load_model(callback)
    \/ LoadThread

LoadSpec == Init /\ [][LoadNext]_vars

(* fair scheduling of the load thread *)
LoadFairSpec == LoadSpec /\ WF_vars(LoadThread)

(* jobs accepted so far *)
nJobs == Cardinality({j \in JobSlots : jobs[j].pc # "none"})

(* mutant: the supplied chunk_id is taken whether or not is_chunk is set *)
TranscriptionIdOfAnyCall(is_chunk, chunk_id, j) ==
    IF chunk_id = NoId THEN UUID(j) ELSE chunk_id

(* lines 124-128: the job id *)
TranscriptionId(is_chunk, chunk_id, j) ==
    IF ~is_chunk \/ chunk_id = NoId THEN UUID(j) ELSE chunk_id

(* mutant: the call hands its job to the thread of the call before *)
ReusedWorker == IF nJobs = 0 THEN nJobs + 1 ELSE nJobs

(* lines 131-136: threading.Thread(...).start() makes a new thread *)
NewWorker == nJobs + 1

(* mutant: a guard that forgets to look at is_loaded *)
TranscribeRejectsMissing(audio_file) == ~Exists(audio_file)

(* lines 114 and 119: the two guards of transcribe *)
TranscribeRejects(audio_file) == ~is_loaded \/ ~Exists(audio_file)

(* lines 102-136: transcribe up to thread.start(); a rejected call returns *)
(* None (after telling the callback, which changes no state)               *)
Transcribe(audio_file, is_chunk, chunk_id) ==
    /\ IF TranscribeRejects(audio_file)
       THEN /\ lastTranscribe' = [ret |-> NoId, spawned |-> FALSE]
            /\ UNCHANGED jobs
       ELSE /\ nJobs < MaxJobs
            /\ LET j == NewWorker
               IN  jobs' = [jobs EXCEPT ![j] =
                              [NoJob EXCEPT !.pc = "start", !.audio_file = audio_file,
                                            !.is_chunk = is_chunk,
                                            !.id = TranscriptionId(is_chunk, chunk_id, j)]]
            /\ UNCHANGED lastTranscribe
    /\ UNCHANGED <<is_loaded, active_transcriptions, loadPc>>
    /\ UNCHANGED <<recVars, files>>
    /\ UNCHANGED loadVars

(* transcribe called by a client that keeps no state of its own *)
transcribe(audio_file, is_chunk, chunk_id) ==
    Transcribe(audio_file, is_chunk, chunk_id) /\ UNCHANGED appVars

(* lines 138-145: the caller records the job and returns its id *)
Register(j) ==
    /\ jobs[j].pc # "none"
    /\ ~jobs[j].registered
    /\ active_transcriptions' =
          [active_transcriptions EXCEPT ![jobs[j].id] =
              [thread |-> j, audio_file |-> jobs[j].audio_file,
               is_chunk |-> jobs[j].is_chunk]]
    /\ jobs' = [jobs EXCEPT ![j].registered = TRUE]
    /\ lastTranscribe' = [ret |-> jobs[j].id, spawned |-> TRUE]
    /\ UNCHANGED <<is_loaded, loadPc>>
    /\ UNCHANGED <<recVars, files, appVars>>
    /\ UNCHANGED loadVars

(* ----------------- the worker thread: _transcribe_audio --------------- *)

Finish(job, how) == [job EXCEPT !.pc = "done", !.end = how]

AddCall(job, text, success) ==
    [job EXCEPT !.calls = Append(@, CallbackArgs(text, success, job))]

(* lines 159-164 *)
WCheckLoaded(j) ==
    /\ jobs[j].pc = "start"
    /\ jobs' = [jobs EXCEPT ![j] =
          IF ~is_loaded
          THEN Finish(AddCall(@, "Model is not loaded. Please call load_model() first.",
                              FALSE), "not_loaded")
          ELSE [@ EXCEPT !.pc = "exists"]]
    /\ UNCHANGED <<is_loaded, active_transcriptions, loadPc, lastTranscribe>>
    /\ UNCHANGED <<recVars, files, appVars>>
    /\ UNCHANGED loadVars

(* lines 167-172 *)
WCheckExists(j) ==
    /\ jobs[j].pc = "exists"
    /\ jobs' = [jobs EXCEPT ![j] =
          IF ~Exists(@.audio_file)
          THEN Finish(AddCall(@, "Audio file does not exist", FALSE), "missing")
          ELSE [@ EXCEPT !.pc = "size"]]
    /\ UNCHANGED <<is_loaded, active_transcriptions, loadPc, lastTranscribe>>
    /\ UNCHANGED <<recVars, files, appVars>>
    /\ UNCHANGED loadVars

(* the cleanup condition of lines 178, 205 and 226 *)
CleanupApplies(job) ==
    job.is_chunk /\ Exists(job.audio_file) /\ IsCleanupName(job.audio_file)

(* os.remove(audio_file) under that condition *)
Cleanup(job) ==
    IF CleanupApplies(job) THEN [files EXCEPT ![job.audio_file] = NoFile] ELSE files

(* mutant: no file is taken for empty *)
IsEmptyFileNever(file_size) == FALSE

(* line 175: if file_size == 0 *)
IsEmptyFile(file_size) == file_size = 0

(* mutant: a threshold one byte higher *)
TooSmallBelowOrAt(file_size) == file_size <= MinAudioBytes

(* line 189: if file_size < 1024 *)
TooSmall(file_size) == file_size < MinAudioBytes

(* lines 174-185: os.path.getsize, and the empty file *)
WSize(j) ==
    /\ jobs[j].pc = "size"
    /\ IF ~Exists(jobs[j].audio_file)
       THEN (* getsize raises outside the try: the thread dies *)
            /\ jobs' = [jobs EXCEPT ![j] = Finish(@, "crashed")]
            /\ UNCHANGED files
       ELSE IF IsEmptyFile(files[jobs[j].audio_file].size)
       THEN /\ files' = Cleanup(jobs[j])
            /\ \E raises \in BOOLEAN :
                  jobs' = [jobs EXCEPT ![j] =
                     Finish(AddCall(@, "", TRUE), IF raises THEN "crashed" ELSE "empty")]
       ELSE /\ jobs' = [jobs EXCEPT ![j].pc = "infer",
                                    ![j].file_size = files[jobs[j].audio_file].size]
            /\ UNCHANGED files
    /\ UNCHANGED <<is_loaded, active_transcriptions, loadPc, lastTranscribe>>
    /\ UNCHANGED <<recVars, appVars>>
    /\ UNCHANGED loadVars

(* results of model.transcribe(...)["text"].strip(): words, or silence *)
Texts == {"hello", ""}

(* lines 187-202: the size threshold and the inference *)
WInfer(j) ==
    /\ jobs[j].pc = "infer"
    /\ IF TooSmall(jobs[j].file_size)
       THEN jobs' = [jobs EXCEPT ![j].pc = "except",
                                 ![j].text = "Audio file is too small to process"]
       ELSE \/ /\ Exists(jobs[j].audio_file)
               /\ \E text \in Texts :
                     jobs' = [jobs EXCEPT ![j].pc = "cleanup", ![j].text = text]
            \/ jobs' = [jobs EXCEPT ![j].pc = "except", ![j].text = "inference failed"]
    /\ UNCHANGED <<is_loaded, active_transcriptions, loadPc, lastTranscribe>>
    /\ UNCHANGED <<recVars, files, appVars>>
    /\ UNCHANGED loadVars

(* lines 204-209 *)
WCleanup(j) ==
    /\ jobs[j].pc = "cleanup"
    /\ files' = Cleanup(jobs[j])
    /\ jobs' = [jobs EXCEPT ![j].pc = "callback"]
    /\ UNCHANGED <<is_loaded, active_transcriptions, loadPc, lastTranscribe>>
    /\ UNCHANGED <<recVars, appVars>>
    /\ UNCHANGED loadVars

(* lines 211-213: the callback returns, or raises into the except clause *)
WCallback(j) ==
    /\ jobs[j].pc = "callback"
    /\ \E raises \in BOOLEAN :
          jobs' = [jobs EXCEPT ![j] =
             [AddCall(@, @.text, TRUE) EXCEPT
                 !.pc = IF raises THEN "except" ELSE "remove",
                 !.text = IF raises THEN "callback failed" ELSE @]]
    /\ UNCHANGED <<is_loaded, active_transcriptions, loadPc, lastTranscribe>>
    /\ UNCHANGED <<recVars, files, appVars>>
    /\ UNCHANGED loadVars

(* the map without the entry of id *)
Delete(map, id) == [map EXCEPT ![id] = NoEntry]

(* the outcome of a worker that has returned from the try block *)
Outcome(job) == IF job.text = "" THEN "empty" ELSE "success"

(* line 216: if chunk_id in self.active_transcriptions; lines 219: return  *)
WRemove(j) ==
    /\ jobs[j].pc = "remove"
    /\ jobs' = [jobs EXCEPT ![j] =
          IF active_transcriptions[@.id] # NoEntry
          THEN [@ EXCEPT !.pc = "delete"]
          ELSE Finish(@, Outcome(@))]
    /\ UNCHANGED <<is_loaded, active_transcriptions, loadPc, lastTranscribe>>
    /\ UNCHANGED <<recVars, files, appVars>>
    /\ UNCHANGED loadVars

(* line 217: del self.active_transcriptions[chunk_id]; a key another       *)
(* worker has deleted since the test raises KeyError into the except       *)
(* clause                                                                  *)
WDelete(j) ==
    /\ jobs[j].pc = "delete"
    /\ IF active_transcriptions[jobs[j].id] # NoEntry
       THEN /\ active_transcriptions' = Delete(active_transcriptions, jobs[j].id)
            /\ jobs' = [jobs EXCEPT ![j] = Finish(@, Outcome(@))]
       ELSE /\ jobs' = [jobs EXCEPT ![j].pc = "except", ![j].text = "KeyError"]
            /\ UNCHANGED active_transcriptions
    /\ UNCHANGED <<is_loaded, loadPc, lastTranscribe>>
    /\ UNCHANGED <<recVars, files, appVars>>
    /\ UNCHANGED loadVars

(* lines 221-230: the except clause: the cleanup on error *)
WExcept(j) ==
    /\ jobs[j].pc = "except"
    /\ files' = Cleanup(jobs[j])
    /\ jobs' = [jobs EXCEPT ![j].pc = "callback_error"]
    /\ UNCHANGED <<is_loaded, active_transcriptions, loadPc, lastTranscribe>>
    /\ UNCHANGED <<recVars, appVars>>
    /\ UNCHANGED loadVars

(* lines 232-233: the callback with the error; if it raises the thread dies *)
WCallbackError(j) ==
    /\ jobs[j].pc = "callback_error"
    /\ \E raises \in BOOLEAN :
          jobs' = [jobs EXCEPT ![j] =
             IF raises
             THEN Finish(AddCall(@, "Error transcribing audio", FALSE), "crashed")
             ELSE [AddCall(@, "Error transcribing audio", FALSE) EXCEPT
                      !.pc = "remove_error"]]
    /\ UNCHANGED <<is_loaded, active_transcriptions, loadPc, lastTranscribe>>
    /\ UNCHANGED <<recVars, files, appVars>>
    /\ UNCHANGED loadVars

(* line 236: if chunk_id in self.active_transcriptions; line 239: return   *)
WRemoveError(j) ==
    /\ jobs[j].pc = "remove_error"
    /\ jobs' = [jobs EXCEPT ![j] =
          IF active_transcriptions[@.id] # NoEntry
          THEN [@ EXCEPT !.pc = "delete_error"]
          ELSE Finish(@, "error")]
    /\ UNCHANGED <<is_loaded, active_transcriptions, loadPc, lastTranscribe>>
    /\ UNCHANGED <<recVars, files, appVars>>
    /\ UNCHANGED loadVars

(* line 237: del self.active_transcriptions[chunk_id], inside the except   *)
(* clause: a KeyError ends the thread                                      *)
WDeleteError(j) ==
    /\ jobs[j].pc = "delete_error"
    /\ IF active_transcriptions[jobs[j].id] # NoEntry
       THEN /\ active_transcriptions' = Delete(active_transcriptions, jobs[j].id)
            /\ jobs' = [jobs EXCEPT ![j] = Finish(@, "error")]
       ELSE /\ jobs' = [jobs EXCEPT ![j] = Finish([@ EXCEPT !.text = "KeyError"], "crashed")]
            /\ UNCHANGED active_transcriptions
    /\ UNCHANGED <<is_loaded, loadPc, lastTranscribe>>
    /\ UNCHANGED <<recVars, files, appVars>>
    /\ UNCHANGED loadVars

Worker(j) ==
    \/ WCheckLoaded(j)
    \/ WCheckExists(j)
    \/ WSize(j)
    \/ WInfer(j)
    \/ WCleanup(j)
    \/ WCallback(j)
    \/ WRemove(j)
    \/ WDelete(j)
    \/ WExcept(j)
    \/ WCallbackError(j)
    \/ WRemoveError(j)
    \/ WDeleteError(j)

TNext ==
    \/ \E audio_file \in TPaths, is_chunk \in BOOLEAN, chunk_id \in ChunkIds :
          transcribe(audio_file, is_chunk, chunk_id)
    \/ \E j \in JobSlots : Register(j)
    \/ \E j \in JobSlots : Worker(j)

TSpec == TInit /\ [][TNext]_vars

(* ---------------------- the writers on their own ---------------------- *)

(* lines 166-184: _save_audio_chunk: <<path returned, files after>> *)
save_audio_chunk(chunk, chunk_index) ==
    IF chunk = <<>>
    THEN <<NoPath, files>>
    ELSE <<ChunkFilePath(chunk_index),
           [files EXCEPT ![ChunkFilePath(chunk_index)] = WavFile(chunk)]>>

(* the lists of up to MaxSamples blocks, of any sample value *)
SampleLists == UNION {[1..n -> Samples] : n \in 1..MaxSamples}

(* an idle recorder whose session buffer and chunk accumulator hold the    *)
(* blocks the loop has appended to both (lines 141-142)                    *)
PcmInit ==
    /\ InitJobs /\ InitLoader /\ InitApp
    /\ files = [p \in Paths |-> NoFile]
    /\ recording = FALSE
    /\ audio_filename = NoPath
    /\ data_queue = <<>>
    /\ recording_thread = 0
    /\ chunk_callback = None
    /\ threads = [t \in ThreadIds |-> NoThread]
    /\ mainPc = "idle"
    /\ lastCall = [op |-> None, arg |-> None, ret |-> None, was_recording |-> FALSE,
                   queued |-> <<>>]
    /\ now = 0
    /\ nPut = 0
    /\ chunkCalls = <<>>
    /\ \E blocks \in SampleLists : frames = blocks /\ current_chunk = blocks

(* _save_audio() on the session buffer *)
SaveSession ==
    /\ files' = save_audio(frames)[2]
    /\ audio_filename' = save_audio(frames)[1]
    /\ UNCHANGED <<recording, frames, current_chunk, data_queue, recording_thread,
                   chunk_callback, threads, mainPc, lastCall, now, nPut, chunkCalls>>
    /\ UNCHANGED <<trVars, appVars>>

(* _save_audio_chunk(current_chunk, 0) on the accumulator *)
SaveChunk ==
    /\ files' = save_audio_chunk(current_chunk, 0)[2]
    /\ UNCHANGED recVars
    /\ UNCHANGED <<trVars, appVars>>

PcmNext == SaveSession \/ SaveChunk

PcmSpec == PcmInit /\ [][PcmNext]_vars

(* ------------------- the engine: loader and jobs ---------------------- *)

(* the engine starts Unloaded with one audio file of MinAudioBytes on disk *)
EngineInit ==
    /\ InitObjects
    /\ files = [p \in Paths |->
                  IF p = ChunkFilePath(0)
                  THEN [size |-> MinAudioBytes, data |-> <<>>] ELSE NoFile]

(* load_model and transcribe called in any order, with the load thread and *)
(* the workers between them                                                *)
EngineNext ==
    \/ \E callback \in LoadCallbacks : load_model(callback)
    \/ LoadThread
    \/ \E audio_file \in TPaths :
          /\ nJobs < MaxEngineJobs \/ TranscribeRejects(audio_file)
          /\ transcribe(audio_file, FALSE, NoId)
    \/ \E j \in JobSlots : Register(j)
    \/ \E j \in JobSlots : Worker(j)

EngineSpec == EngineInit /\ [][EngineNext]_vars

(* --------------------- jobs under fair scheduling --------------------- *)

(* a chunk file of the name the cleanup looks for *)
CleanupChunkPath == PathJoin(temp_dir, ChunkFileNameLegacy(0))

(* a Loaded engine and one chunk file, of any of the sizes *)
JobFairInit ==
    /\ InitRecorder /\ InitJobs /\ AfterLoad /\ InitApp
    /\ \E size \in FileSizes :
          files = [p \in Paths |->
                      IF p = CleanupChunkPath
                      THEN [size |-> size, data |-> <<>>] ELSE NoFile]

(* chunk jobs submitted for that file, one after the other or at once, and *)
(* stop_recording called on the idle recorder                              *)
JobFairNext ==
    \/ /\ nJobs < MaxFairJobs
       /\ \E chunk_id \in ChunkIds : transcribe(CleanupChunkPath, TRUE, chunk_id)
    \/ \E j \in JobSlots : Register(j)
    \/ \E j \in JobSlots : Worker(j)
    \/ stop_recording

(* every worker thread and every caller keeps being scheduled *)
JobFairSpec ==
    /\ JobFairInit /\ [][JobFairNext]_vars
    /\ \A j \in JobSlots : WF_vars(Worker(j)) /\ WF_vars(Register(j))

(* ------------------------- one job at a time -------------------------- *)

(* a Loaded engine and the two audio files, each of any of the sizes *)
SoloInit ==
    /\ InitRecorder /\ InitJobs /\ AfterLoad /\ InitApp
    /\ \E size \in [TPaths -> FileSizes] :
          files = [p \in Paths |->
                      IF p \in TPaths THEN [size |-> size[p], data |-> <<>>] ELSE NoFile]

SoloNext ==
    \/ /\ nJobs < MaxSoloJobs
       /\ \E audio_file \in TPaths, is_chunk \in BOOLEAN, chunk_id \in ChunkIds :
             transcribe(audio_file, is_chunk, chunk_id)
    \/ \E j \in JobSlots : Register(j)
    \/ \E j \in JobSlots : Worker(j)

SoloSpec == SoloInit /\ [][SoloNext]_vars

(* ------------------------ MeetingAssistantApp ------------------------- *)

(* chunk_callback=self._process_audio_chunk *)
ProcessAudioChunk == "process_audio_chunk"

(* the state after MeetingAssistantApp.__init__ once the load it starts    *)
(* (line 80) has ended: _on_model_loaded(True) has set model_loaded, or    *)
(* the load failed and _on_model_loaded(False) left it unset               *)
AppInit ==
    /\ InitRecorder /\ InitJobs
    /\ files = [p \in Paths |-> NoFile]
    /\ loadPc = "done"
    /\ load_callback = "on_loaded"
    /\ lastLoad = [arg |-> "on_loaded", spawned |-> TRUE]
    /\ nLoads = 1
    /\ \E success \in BOOLEAN :
          /\ is_loaded = success
          /\ model = IF success THEN "whisper" ELSE None
          /\ loadCalls = <<success>>
          /\ app = [is_recording |-> FALSE, model_loaded |-> success, pc |-> "idle",
                    handled |-> [t \in ThreadIds |-> 0],
                    callers |-> [j \in JobSlots |-> 0]]

(* mutant: a handler that takes every start for a success *)
IsRecordingAfterStartAlways(success) == TRUE

(* app.py lines 326 and 344-345: is_recording after the start branch *)
IsRecordingAfterStart(success) == success

(* app.py lines 320-366: a press of the record button, up to the return of *)
(* the handler or to the join inside stop_recording                        *)
app_record_audio ==
    /\ app.pc = "idle"
    /\ mainPc = "idle"
    /\ IF ~app.model_loaded
       THEN UNCHANGED vars
       ELSE IF ~app.is_recording
            THEN /\ \E max_duration \in MaxDurations :
                       StartRecording(max_duration, ProcessAudioChunk)
                 /\ app' = [app EXCEPT
                               !.is_recording = IsRecordingAfterStart(lastCall'.ret)]
            ELSE /\ StopRecording
                 /\ app' = [app EXCEPT !.is_recording = FALSE,
                                       !.pc = IF StopRejects THEN "idle" ELSE "stop"]

(* app.py lines 366-382: stop_recording returns and the handler ends *)
app_record_audio_finish ==
    /\ app.pc = "stop"
    /\ StopRecordingFinish
    /\ app' = [app EXCEPT !.pc = "idle"]

(* capture thread t has made a chunk callback it has not entered yet *)
CallbackDue(t) == threads[t].ncb > app.handled[t]

(* the chunk file of that callback: the loop has counted it (line 147),    *)
(* the final flush has not                                                 *)
CallbackFile(t) ==
    ChunkFilePath(IF threads[t].pc = "clear" THEN threads[t].chunk_count
                  ELSE threads[t].chunk_count - 1)

(* app.py lines 390-417: the chunk is not handed to the transcriber *)
ChunkSkipped(chunk_file) ==
    \/ ~app.is_recording
    \/ ~Exists(chunk_file)
    \/ files[chunk_file].size < MinAudioBytes

(* app.py lines 384-426: _process_audio_chunk, called by capture thread t, *)
(* up to thread.start() inside transcribe                                  *)
process_audio_chunk(t) ==
    /\ threads[t].pc \in {"loop", "clear"}
    /\ CallbackDue(t)
    /\ LET chunk_file == CallbackFile(t)
       IN  IF ChunkSkipped(chunk_file)
           THEN /\ files' = IF app.is_recording /\ Exists(chunk_file)
                               /\ files[chunk_file].size = 0
                            THEN [files EXCEPT ![chunk_file] = NoFile] ELSE files
                /\ app' = [app EXCEPT !.handled[t] = @ + 1]
                /\ UNCHANGED <<recVars, trVars>>
           ELSE /\ nJobs < MaxAppJobs
                /\ Transcribe(chunk_file, TRUE, AppChunkId(NewWorker))
                /\ app' = [app EXCEPT !.handled[t] = @ + 1, !.callers[NewWorker] = t]

(* capture thread t is inside its chunk callback: the callback is due, or  *)
(* the transcribe it called has not returned                               *)
InCallback(t) ==
    \/ CallbackDue(t)
    \/ \E j \in JobSlots :
          app.callers[j] = t /\ jobs[j].pc # "none" /\ ~jobs[j].registered

(* the app after its start-up: the button, the capture threads with their  *)
(* chunk callbacks, the jobs the callbacks ask for                         *)
AppNext ==
    \/ app_record_audio
    \/ app_record_audio_finish
    \/ \E t \in ThreadIds : ~InCallback(t) /\ CaptureProgress(t)
    \/ \E t \in ThreadIds : Deliver(t)
    \/ \E t \in ThreadIds : process_audio_chunk(t)
    \/ \E j \in JobSlots : Register(j)
    \/ \E j \in JobSlots : Worker(j)
    \/ Tick

AppSpec == AppInit /\ [][AppNext]_vars

(* the app whose recorder a second client uses as well: the client starts  *)
(* a session, without chunk callback, whenever it finds the recorder Idle  *)
SharedNext ==
    \/ AppNext
    \/ \E max_duration \in MaxDurations : ~recording /\ start_recording(max_duration, None)

SharedSpec == AppInit /\ [][SharedNext]_vars

(* ============================== claims ================================ *)

(* the pcs at which the worker thread of a job is running *)
WorkerRunning(j) == jobs[j].pc \notin {"none", "done"}

AllWorkersDone == \A j \in JobSlots : jobs[j].pc \in {"none", "done"} /\ (jobs[j].pc = "done" => jobs[j].registered)

(* C1: whenever the worker of a transcription job is running, the job's id *)
(* is a key of the active-jobs mapping.                                    *)
C1_RunningJobIsRegistered ==
    \A j \in JobSlots : WorkerRunning(j) => active_transcriptions[jobs[j].id] # NoEntry

(* C2: a worker that has terminated, on whatever path, has left no entry   *)
(* of its job in the active-jobs mapping; so once every submitted worker   *)
(* has terminated (and every transcribe call has returned) the mapping is  *)
(* empty.                                                                  *)
C2_TerminatedJobsLeaveNoEntry ==
    /\ \A j \in JobSlots :
          (jobs[j].pc = "done" /\ jobs[j].registered)
             => active_transcriptions[jobs[j].id].thread # j
    /\ AllWorkersDone => \A id \in JobIdSet : active_transcriptions[id] = NoEntry

(* the paths the recorder's chunk writer produces *)
RecorderChunkPaths == {ChunkFilePath(i) : i \in 0..MaxChunkIndex}

(* a job on a file as the chunk writer leaves it: at one of its paths, and *)
(* (a WAV header and at least one block) above the size threshold          *)
OnRecorderChunk(job) ==
    job.audio_file \in RecorderChunkPaths /\ job.file_size >= MinAudioBytes

(* C4: once the worker of a chunk job on a file written by the recorder's  *)
(* chunk writer has terminated, that chunk file is gone from the disk.     *)
C4_ChunkFileGoneAfterJob ==
    \A j \in JobSlots :
        (jobs[j].pc = "done" /\ jobs[j].is_chunk /\ OnRecorderChunk(jobs[j]))
           => ~Exists(jobs[j].audio_file)

(* the session of thread t ran until max_duration elapsed *)
RanToMaxDuration(t) == threads[t].end = "max_duration"

(* C3: a session left running until max_duration elapsed has made at least *)
(* floor(max_duration / chunk_duration) chunk callbacks, and a             *)
(* stop_recording that follows returns the path of the session file,       *)
(* which holds every block captured in the session.                        *)
C3_TimedOutSessionIsSavedOnStop ==
    \A t \in ThreadIds :
        (t = recording_thread /\ RanToMaxDuration(t)) =>
            /\ chunk_callback # None =>
                  threads[t].ncb >= threads[t].max_duration \div chunk_duration
            /\ lastCall.op = "stop_recording" =>
                  /\ lastCall.ret = SessionFilePath
                  /\ files[SessionFilePath].data = Pcm(threads[t].appended \o lastCall.queued)

(* C5: at most one input stream is open at any time.                       *)
C5_OneStreamAtATime == Cardinality({t \in ThreadIds : StreamOpen(t)}) <= 1

(* the session of thread t found no input device or could not open the stream *)
DeviceFailure(t) == threads[t].end \in {"no_device", "error"}

(* C6: when there is no input device or the stream cannot be opened, the   *)
(* start_recording call of that session has returned False (and the        *)
(* recorder is Idle).                                                      *)
C6_DeviceFailureReturnsFalse ==
    (lastCall.op = "start_recording" /\ recording_thread # 0
        /\ DeviceFailure(recording_thread))
       => (lastCall.ret = FALSE /\ ~recording)

(* C7: start_recording entered while Recording returns False and changes   *)
(* neither the session buffer, the chunk accumulator, the registered       *)
(* callback, the recording flag nor the threads.                           *)
C7_StartWhileRecordingIsNoOp ==
    [][ \A max_duration \in MaxDurations, cb \in Callbacks :
          (recording /\ start_recording(max_duration, cb)) =>
             /\ lastCall'.op = "start_recording" /\ lastCall'.ret = FALSE
             /\ UNCHANGED <<recording, frames, current_chunk, chunk_callback, threads,
                            recording_thread>> ]_vars

C7_Witness ==
    /\ lastCall.op = "start_recording" /\ lastCall.ret = FALSE /\ lastCall.was_recording
    /\ recording /\ frames # <<>> /\ current_chunk # <<>>

C9_StopWhileIdleIsNoOp ==
    [][ (~recording /\ mainPc = "idle" /\ stop_recording) =>
           /\ lastCall'.op = "stop_recording" /\ lastCall'.ret = NoPath
           /\ mainPc' = "idle"
           /\ UNCHANGED <<frames, audio_filename, recording, files>> ]_vars

(* stop_recording was refused after a session that had captured blocks *)
C9_Witness ==
    /\ lastCall.op = "stop_recording" /\ ~lastCall.was_recording /\ lastCall.ret = NoPath
    /\ frames # <<>> /\ ~recording

IsIncreasing(seq) == \A i \in 1..(Len(seq) - 1) : seq[i] < seq[i + 1]

(* the blocks of the session stop_recording has just closed: those the     *)
(* capture loop appended, then those still queued at the stop              *)
StoppedSession == threads[recording_thread].appended \o lastCall.queued

(* C10: stop_recording on a Recording session returns a path exactly when  *)
(* the session holds at least one block; the file holds the blocks the     *)
(* loop appended followed by the blocks still queued, in capture order and *)
(* each once.                                                              *)
C10_StopSavesTheSession ==
    (lastCall.op = "stop_recording" /\ lastCall.was_recording) =>
        /\ (lastCall.ret # NoPath) <=> (StoppedSession # <<>>)
        /\ lastCall.ret # NoPath =>
              /\ lastCall.ret = SessionFilePath
              /\ files[lastCall.ret].data = Pcm(StoppedSession)
              /\ IsIncreasing(StoppedSession)
              /\ audio_filename = lastCall.ret

(* a stop that saved blocks the loop appended and blocks it found queued *)
C10_Witness ==
    /\ lastCall.op = "stop_recording" /\ lastCall.was_recording
    /\ lastCall.ret = SessionFilePath
    /\ threads[recording_thread].appended # <<>> /\ lastCall.queued # <<>>

(* a stop of a session in which no block was captured *)
C10_WitnessEmpty ==
    /\ lastCall.op = "stop_recording" /\ lastCall.was_recording /\ lastCall.ret = NoPath

(* C11: when stop_recording returns from a Recording session the capture   *)
(* thread of the session has exited and the recorder is Idle.              *)
C11_StopReturnsAfterThreadExit ==
    (lastCall.op = "stop_recording" /\ lastCall.was_recording) =>
        /\ ~IsAlive(recording_thread)
        /\ ~recording

(* a stop has returned from a session whose capture loop was running and   *)
(* left it on seeing the flag                                              *)
C11_Witness ==
    /\ lastCall.op = "stop_recording" /\ lastCall.was_recording /\ mainPc = "idle"
    /\ threads[recording_thread].pc = "dead"
    /\ threads[recording_thread].end = "stopped"

(* C12: a stop_recording of a Recording session terminates: once it has    *)
(* cleared the flag, the next loop test of the session's capture thread    *)
(* leaves the loop, and the join returns.                                  *)
C12_StopTerminates ==
    /\ [][ \A t \in ThreadIds :
             (mainPc = "join" /\ t = recording_thread /\ LoopTest(t))
                => threads'[t].pc = "flush" ]_vars
    /\ (mainPc = "join") ~> (mainPc = "idle")

(* the stop has cleared the flag while the capture loop is in an iteration *)
C12_Witness ==
    /\ mainPc = "join" /\ ~recording
    /\ threads[recording_thread].pc = "body"
    /\ current_chunk # <<>>

(* seconds since the stream of thread t was opened *)
Elapsed(t) == now - threads[t].start_time

(* the capture loop of thread t is about to test its condition with        *)
(* max_duration used up                                                    *)
Expired(t) == threads[t].pc = "loop" /\ Elapsed(t) >= threads[t].max_duration

(* C13: a session ends itself: no loop iteration starts once max_duration  *)
(* has elapsed (so the session never runs more than one iteration over     *)
(* it), and a loop that has used up max_duration exits and leaves the      *)
(* recorder Idle, without any stop call.                                   *)
C13_SessionEndsAtMaxDuration ==
    /\ [](\A t \in ThreadIds :
            /\ threads[t].pc = "body" => Elapsed(t) < threads[t].max_duration
            /\ threads[t].pc = "loop" => Elapsed(t) <= threads[t].max_duration)
    /\ \A t \in ThreadIds :
          Expired(t) ~> (~recording /\ threads[t].pc \in {"close", "dead"})

(* a session of four seconds has ended by itself: the caller's last call   *)
(* is still the start_recording that began it                              *)
C13_Witness ==
    /\ lastCall.op = "start_recording" /\ lastCall.ret = TRUE
    /\ threads[recording_thread].pc = "dead"
    /\ threads[recording_thread].end = "max_duration"
    /\ threads[recording_thread].max_duration = 4
    /\ ~recording /\ now = 4

(* audio blocks arrived throughout the session of thread t: the loop has   *)
(* appended at least one block for every second the session lasted         *)
BlocksThroughout(t) == Len(threads[t].appended) >= Elapsed(t)

(* at the exit of the loop a partial chunk remains: the accumulator holds  *)
(* blocks of less than chunk_duration seconds                              *)
PartialChunkRemains(t) ==
    current_chunk # <<>> /\ now - threads[t].chunk_start_time < chunk_duration

(* the number of chunk callbacks C14 gives a session that ends now *)
ExpectedCallbacks(t) ==
    Elapsed(t) \div chunk_duration
        + (IF PartialChunkRemains(t) /\ recording THEN 1 ELSE 0)

(* C14: a session with a chunk callback that has recorded for T seconds,   *)
(* blocks arriving throughout, has made floor(T / chunk_duration) chunk    *)
(* callbacks, plus one for the final flush when a partial chunk remains    *)
(* and the session was not stopped. A session that runs to max_duration is *)
(* counted at its final flush; a stopped one at the call of stop_recording *)
(* that finds the thread between two iterations: from there on the loop    *)
(* exits and the flush is skipped, so the count is final.                  *)
C14_ChunkCallbackCount ==
    [][ \A t \in ThreadIds :
          /\ (FinalFlush(t) /\ recording /\ chunk_callback # None
                  /\ BlocksThroughout(t))
                => threads'[t].ncb = ExpectedCallbacks(t)
          /\ (stop_recording /\ recording /\ t = recording_thread
                  /\ threads[t].pc = "loop" /\ chunk_callback # None
                  /\ BlocksThroughout(t))
                => threads[t].ncb = Elapsed(t) \div chunk_duration ]_vars

(* the first half of C14 alone: the count of a session that runs to        *)
(* max_duration                                                            *)
ChunkCountAtMaxDuration ==
    [][ \A t \in ThreadIds :
          (FinalFlush(t) /\ recording /\ chunk_callback # None
              /\ BlocksThroughout(t))
            => threads'[t].ncb = ExpectedCallbacks(t) ]_vars

(* the capture thread t is past its final flush *)
PastFlush(t) == threads[t].pc \in {"clear", "close", "dead"}

(* C15: when the loop exits with a non-empty accumulator and the session   *)
(* was not stopped, the accumulated blocks are written as one more chunk   *)
(* file, under the next sequence index, and the chunk callback (if any) is *)
(* invoked with it; a stopped session flushes nothing; and after its final *)
(* flush a session writes no chunk and makes no callback any more.         *)
C15_FinalFlushOncePerSession ==
    [][ \A t \in ThreadIds :
          LET final == ChunkFilePath(threads[t].chunk_count)
          IN  /\ (FinalFlush(t) /\ current_chunk # <<>> /\ recording) =>
                    /\ files' = [files EXCEPT ![final] = WavFile(current_chunk)]
                    /\ chunk_callback # None =>
                          chunkCalls' = Append(chunkCalls, [thread |-> t, path |-> final])
                    /\ chunk_callback = None => chunkCalls' = chunkCalls
              /\ (FinalFlush(t) /\ ~(current_chunk # <<>> /\ recording)) =>
                    UNCHANGED <<files, chunkCalls>>
              /\ PastFlush(t) =>
                    /\ threads'[t].ncb <= threads[t].ncb
                    /\ \A i \in 1..Len(chunkCalls') :
                          chunkCalls'[i].thread = t => i <= Len(chunkCalls) ]_vars

(* the final flush of a session has just written its second chunk and      *)
(* handed it to the callback                                               *)
C15_Witness ==
    /\ \E t \in ThreadIds :
          /\ threads[t].pc = "clear" /\ threads[t].end = "max_duration"
          /\ threads[t].chunk_count = 1 /\ threads[t].ncb = 2
    /\ Len(chunkCalls) = 2 /\ chunkCalls[2].path = ChunkFilePath(1)
    /\ files[ChunkFilePath(1)] = WavFile(current_chunk) /\ current_chunk # <<>>

(* C16: the chunk callbacks of a session are made one after the other by   *)
(* the session's one capture thread, and the k-th of them (k = 0, 1, ...)  *)
(* carries the chunk file of sequence index k.                             *)
C16_ChunkCallbacksInOrder ==
    \A i \in 1..Len(chunkCalls) :
        /\ chunkCalls[i].thread = recording_thread
        /\ chunkCalls[i].path = ChunkFilePath(i - 1)

(* a session has made two chunk callbacks, one from the loop and one from  *)
(* the final flush, and has ended                                          *)
C16_Witness ==
    /\ Len(chunkCalls) = 2
    /\ chunkCalls[1].path = ChunkFilePath(0) /\ chunkCalls[2].path = ChunkFilePath(1)
    /\ threads[recording_thread].pc = "dead" /\ threads[recording_thread].ncb = 2

(* the least member of a non-empty set of positions *)
Lowest(S) == CHOOSE i \in S : \A j \in S : i <= j

(* C17: over any device list, the device chosen is the lowest-index device *)
(* with input channels whose name holds the preferred name, if there is    *)
(* one, else the lowest-index device with input channels; a device without *)
(* input channels is never chosen; and without an input device the session *)
(* does not record: the flag is cleared and the thread ends.               *)
C17_DeviceSelection ==
    [][ \A t \in ThreadIds :
          SelectDevice(t) =>
             LET devices == threads[t].devices
                 inputs == {i \in 1..Len(devices) : devices[i].max_input_channels > 0}
                 preferred == {i \in inputs : IsPreferredName(devices[i].name)}
                 chosen == threads'[t].input_device
             IN  /\ preferred # {} => chosen = Lowest(preferred) - 1
                 /\ (preferred = {} /\ inputs # {}) => chosen = Lowest(inputs) - 1
                 /\ inputs # {} =>
                       /\ (chosen + 1) \in inputs
                       /\ threads'[t].pc = "open" /\ UNCHANGED recording
                 /\ inputs = {} =>
                       /\ chosen = NoDevice
                       /\ threads'[t].pc = "dead" /\ ~recording' ]_vars

(* the third device of a list has been chosen: the two before it were      *)
(* passed over                                                             *)
C17_Witness ==
    \E t \in ThreadIds : threads[t].pc = "open" /\ threads[t].input_device = 2

(* a list without an input device has ended the session *)
C17_WitnessNoDevice ==
    \E t \in ThreadIds : threads[t].end = "no_device" /\ ~recording

(* C18: load_model entered while the model is Loaded or a load is in       *)
(* progress spawns no load thread, invokes no callback and changes no      *)
(* engine state.                                                           *)
C18_LoadWhileLoadedOrLoadingIsNoOp ==
    [][ \A callback \in LoadCallbacks :
          ((is_loaded \/ LoadThreadAlive) /\ load_model(callback)) =>
             /\ ~lastLoad'.spawned
             /\ UNCHANGED <<is_loaded, model, loadPc, load_callback, loadCalls, nLoads,
                            active_transcriptions, jobs>> ]_vars

(* load_model(on_loaded) has just returned without effect while the load   *)
(* started by an earlier call, without callback, is in progress            *)
C18_Witness ==
    /\ lastLoad = [arg |-> "on_loaded", spawned |-> FALSE]
    /\ loadPc = "load" /\ load_callback = None /\ ~is_loaded /\ nLoads = 1

(* load_model has just returned without effect on a Loaded engine *)
C18_WitnessLoaded ==
    /\ ~lastLoad.spawned /\ is_loaded /\ loadPc = "done"

(* the callbacks a load attempt with the given outcome makes *)
CallsOfAttempt(success) == IF load_callback = None THEN <<>> ELSE <<success>>

(* C19: a load attempt that has ended has ended in one of two ways: the    *)
(* engine is Loaded and the callback was invoked once, with True; or the   *)
(* engine is Unloaded (is_loaded False, no model) and the callback was     *)
(* invoked once, with False.                                               *)
C19_LoadEndsInOneOutcome ==
    loadPc = "done" =>
        \/ is_loaded /\ model # None /\ loadCalls = CallsOfAttempt(TRUE)
        \/ ~is_loaded /\ model = None /\ loadCalls = CallsOfAttempt(FALSE)

(* C20: a load_model call made after a failed load has ended spawns a new  *)
(* load; and a load in progress always ends, so the engine is never stuck  *)
(* in Loading.                                                             *)
C20_FailedLoadCanBeRetried ==
    /\ [][ \A callback \in LoadCallbacks :
             (loadPc = "done" /\ ~is_loaded /\ load_model(callback)) =>
                /\ loadPc' = "load" /\ nLoads' = nLoads + 1
                /\ lastLoad'.spawned /\ load_callback' = callback ]_vars
    /\ LoadThreadAlive ~> (loadPc = "done")

(* the second load attempt, made after the first had failed, has left the  *)
(* engine Loaded                                                           *)
C20_Witness ==
    /\ is_loaded /\ model # None /\ nLoads = 2 /\ loadPc = "done"
    /\ loadCalls = <<TRUE>>

(* C21: the model handle is created at most once: once the engine is      *)
(* Loaded it stays Loaded, the handle is never assigned again, and no      *)
(* load_model or transcribe call starts another load.                      *)
C21_LoadedOnce ==
    [][ is_loaded =>
          /\ is_loaded' /\ model' = model /\ model # None
          /\ nLoads' = nLoads
          /\ loadPc' \in {"callback", "except", "done"} ]_vars

(* on a Loaded engine, whose load thread has ended, a job has been         *)
(* accepted and load_model has been called again, without effect           *)
C21_Witness ==
    /\ is_loaded /\ loadPc = "done" /\ nLoads = 1
    /\ lastLoad = [arg |-> "on_loaded", spawned |-> FALSE]
    /\ \E j \in JobSlots : jobs[j].pc = "done" /\ jobs[j].end = "success"

ActiveIds == {id \in JobIdSet : active_transcriptions[id] # NoEntry}

C24_CallbackCarriesJobId ==
    \A j \in JobSlots : \A i \in 1..Len(jobs[j].calls) :
        jobs[j].calls[i].job_id = jobs[j].id

(* C25: under fair scheduling every accepted job runs to completion: its   *)
(* worker ends and has invoked the completion callback, whatever else is   *)
(* submitted or stopped meanwhile.                                         *)
C25_AcceptedJobCompletes ==
    \A j \in JobSlots :
        (jobs[j].pc # "none") ~> (jobs[j].pc = "done" /\ jobs[j].calls # <<>>)

(* C26: the completion callback of a job is invoked at most once, so no    *)
(* job reports both success = true and success = false.                    *)
C26_OneCallbackPerJob ==
    \A j \in JobSlots : Len(jobs[j].calls) <= 1

(* two jobs have been submitted under the same id *)
SharedId ==
    \E j, k \in JobSlots :
        j # k /\ jobs[j].pc # "none" /\ jobs[k].pc # "none" /\ jobs[j].id = jobs[k].id

(* no worker has met a KeyError: the removal of the map entry by one       *)
(* worker has made no other worker fail                                    *)
NoWorkerFailsOnSharedEntry == \A j \in JobSlots : jobs[j].text # "KeyError"

(* C27: when two jobs are submitted under the same chunk id, every entry   *)
(* of the active-jobs mapping describes a job that has not terminated, and *)
(* neither worker fails because the other has removed the shared entry.    *)
C27_SharedChunkIdIsSafe ==
    SharedId =>
        /\ \A id \in ActiveIds : jobs[active_transcriptions[id].thread].pc # "done"
        /\ NoWorkerFailsOnSharedEntry

(* the worker threads started so far *)
Spawned == {j \in JobSlots : jobs[j].pc # "none"}

C28_WitnessSideBySide ==
    /\ jobs[1].pc = "cleanup" /\ jobs[2].pc = "cleanup"

(* a worker that has ended takes no further step: it stays ended and      *)
(* makes no callback any more                                              *)
DoneIsFinal ==
    \A j \in JobSlots :
        jobs[j].pc = "done" => jobs'[j].pc = "done" /\ jobs'[j].calls = jobs[j].calls

(* the job has been handed to the inference: its worker went past the size *)
(* threshold into model.transcribe                                         *)
Inferred(job) == job.pc \in {"cleanup", "callback", "remove", "delete"}

(* C29: a worker that finds its audio file with size zero invokes the      *)
(* callback with text "" and success = true and ends there: the inference  *)
(* is never run for that job.                                              *)
C29_EmptyFileIsSilentSuccess ==
    [][ /\ \A j \in JobSlots :
             (WSize(j) /\ Exists(jobs[j].audio_file)
                 /\ files[jobs[j].audio_file].size = 0)
                => /\ jobs'[j].pc = "done"
                   /\ Len(jobs'[j].calls) = 1
                   /\ jobs'[j].calls[1].text = "" /\ jobs'[j].calls[1].success
        /\ DoneIsFinal ]_vars

(* the worker of a chunk job has ended on an empty file: one callback with *)
(* "" and true, no size handed to the inference, the chunk file removed    *)
C29_Witness ==
    /\ jobs[1].pc = "done" /\ jobs[1].end = "empty" /\ jobs[1].file_size = -1
    /\ jobs[1].calls = <<[text |-> "", success |-> TRUE, job_id |-> <<"chunk_a">>]>>
    /\ ~Exists(jobs[1].audio_file)

(* the size os.path.getsize gave the worker is below the threshold *)
Undersized(job) == job.file_size \in 1..(MinAudioBytes - 1)

(* C30: a job whose file has between 1 and 1023 bytes is never handed to   *)
(* the inference, and its callback is invoked with success = false and an  *)
(* error text, once; a file of 1024 bytes or more is handed to the         *)
(* inference.                                                              *)
C30_SizeThreshold ==
    /\ [](\A j \in JobSlots :
            Undersized(jobs[j]) =>
               /\ ~Inferred(jobs[j])
               /\ \A i \in 1..Len(jobs[j].calls) :
                     ~jobs[j].calls[i].success /\ jobs[j].calls[i].text \notin {None, ""}
               /\ jobs[j].pc = "done" => Len(jobs[j].calls) = 1)
    /\ [][ \A j \in JobSlots :
             (WInfer(j) /\ jobs[j].file_size >= MinAudioBytes)
                => \/ Inferred(jobs'[j]) /\ jobs'[j].text \in Texts
                   \/ jobs'[j].pc = "except" /\ jobs'[j].text = "inference failed" ]_vars

(* the worker of a job with a file of 1023 bytes has ended with one        *)
(* callback, success = false                                               *)
C30_Witness ==
    /\ jobs[1].pc = "done" /\ jobs[1].file_size = MinAudioBytes - 1
    /\ jobs[1].end = "error"
    /\ Len(jobs[1].calls) = 1 /\ ~jobs[1].calls[1].success

(* a file of exactly 1024 bytes has been transcribed *)
C30_WitnessAtThreshold ==
    /\ jobs[1].pc = "done" /\ jobs[1].file_size = MinAudioBytes
    /\ jobs[1].end = "success" /\ jobs[1].calls[1].text = "hello"

(* q is an integer nearest to num / den *)
IsNearest(q, num, den) ==
    LET d == q * den - num IN 2 * (IF d >= 0 THEN d ELSE 0 - d) <= den

(* C31: every sample s of the session buffer and of the accumulator is     *)
(* written to the session file and to the chunk file as the 16-bit integer *)
(* nearest to s * 32767.                                                   *)
C31_SamplesAreRounded ==
    \A p \in {SessionFilePath, ChunkFilePath(0)} :
        files[p] # NoFile =>
            \A i \in 1..Len(frames) :
                IsNearest(files[p].data[i], frames[i] * FullScale, SampleDen)

(* C32: when the model is loaded and the start_recording called by the     *)
(* record toggle returns False, the handler returns with is_recording      *)
(* False, so that the next press takes the start branch again              *)
C32_FailedStartClearsFlag ==
    [][(/\ app_record_audio
        /\ app.model_loaded /\ ~app.is_recording
        /\ lastCall'.op = "start_recording" /\ lastCall'.ret = FALSE)
       => (~app'.is_recording /\ app'.pc = "idle")]_vars

(* the handler has met a recorder that another client had started *)
C32_Witness ==
    /\ lastCall.op = "start_recording" /\ lastCall.ret = FALSE
    /\ app.model_loaded /\ app.pc = "idle" /\ ~app.is_recording
    /\ recording

(* the blocks the input stream of thread t has delivered *)
DeliveredBy(t) == {threads[t].put[k] : k \in 1..Len(threads[t].put)}

(* C33: the session buffer a stop_recording has serialized holds only      *)
(* blocks that the input stream of that session delivered                  *)
C33_SessionsAreIsolated ==
    (mainPc = "idle" /\ lastCall.op = "stop_recording" /\ lastCall.ret # NoPath)
        => \A i \in 1..Len(frames) : frames[i] \in DeliveredBy(recording_thread)

RECURSIVE Emitted(_)
(* the samples of the chunk files 0 .. n-1, in the order of their numbers *)
Emitted(n) ==
    IF n = 0 THEN <<>> ELSE Emitted(n - 1) \o files[ChunkFilePath(n - 1)].data

(* C34: while the capture loop of a thread runs, the chunk files it has    *)
(* written so far followed by the accumulator are the session buffer, the  *)
(* session buffer is what the loop appended, and no block is in it twice   *)
C34_ChunksPartitionTheSession ==
    \A t \in ThreadIds :
        threads[t].pc \in {"loop", "body"} =>
            /\ Emitted(threads[t].chunk_count) \o Pcm(current_chunk) = Pcm(frames)
            /\ \A i \in 0..(threads[t].chunk_count - 1) : Exists(ChunkFilePath(i))
            /\ frames = threads[t].appended
            /\ \A i, k \in 1..Len(frames) : i # k => frames[i] # frames[k]

(* a chunk has been emitted and a later block waits in the accumulator *)
C34_Witness ==
    \E t \in ThreadIds :
        /\ threads[t].pc = "loop"
        /\ threads[t].chunk_count = 1
        /\ current_chunk # <<>>
        /\ Len(frames) > Len(current_chunk)

(* two chunks have been emitted *)
C34_WitnessTwoChunks ==
    \E t \in ThreadIds :
        /\ threads[t].pc = "loop"
        /\ threads[t].chunk_count = 2
        /\ Len(frames) > 1

(* a stop_recording has returned and no start_recording has been accepted  *)
(* since                                                                   *)
StopHasReturned == mainPc = "idle" /\ lastCall.op = "stop_recording"

(* C35: once a stop_recording has returned, no chunk callback is invoked   *)
(* until the next accepted start_recording                                 *)
C35_NoCallbackAfterStop ==
    [][StopHasReturned =>
          /\ \A t \in ThreadIds : threads'[t].ncb <= threads[t].ncb
          /\ Len(chunkCalls') <= Len(chunkCalls)]_vars

(* a stop has returned from a session that had made two chunk callbacks *)
C35_Witness ==
    /\ StopHasReturned /\ lastCall.was_recording
    /\ threads[recording_thread].pc = "dead"
    /\ threads[recording_thread].ncb = 2
    /\ Len(chunkCalls) = 2

(* C36: no step writes the chunk file of a chunk job that is in flight     *)
C36_ChunkFileOfRunningJobIsKept ==
    [][\A j \in JobSlots :
          (WorkerRunning(j) /\ jobs[j].is_chunk)
              => files'[jobs[j].audio_file] = files[jobs[j].audio_file]]_vars

(* C37: whenever no record-toggle handler is running, the app's            *)
(* is_recording equals the recorder's recording                            *)
C37_AppFlagFollowsRecorder ==
    app.pc = "idle" => (app.is_recording <=> recording)

(* C38: a load attempt invokes its callback at most once, and never with   *)
(* False while the engine is Loaded                                        *)
C38_LoadCallbackMatchesState ==
    /\ Len(loadCalls) <= 1
    /\ is_loaded => \A i \in 1..Len(loadCalls) : loadCalls[i] = TRUE

(* the capture thread of the current session runs, or was spawned and is   *)
(* about to                                                                *)
CaptureThreadAlive == IsAlive(recording_thread)

(* thread t writes self.recording = False (lines 125, 158, 164) *)
ClearsFlag(t) == threads'[t] # threads[t] /\ recording /\ ~recording'

(* C39: while recording is True the capture thread of the current session  *)
(* is alive, so that every end of the thread leaves the recorder Idle; and *)
(* only the thread of the current session clears the flag                  *)
C39_RecordingHasItsThread ==
    /\ [](recording => CaptureThreadAlive)
    /\ [][\A t \in ThreadIds : ClearsFlag(t) => t = recording_thread]_vars

====
